---------------------------- MODULE Spec2Model ----------------------------
(***************************************************************************)
(* A model of the carbon footprint tool of src/main.py: the operator's     *)
(* entries read by CarbonCalculator.get_input, the arithmetic of           *)
(* CarbonCalculator.calculate_footprint, the branch selection of           *)
(* generate_advice and the order of the steps of main and generate_report. *)
(*                                                                         *)
(* Python's float is the IEEE 754 binary64 format.  Its values are         *)
(* modelled bit for bit: a float is a record [k, s, m, e] that is a NaN,   *)
(* an infinity of sign s, or the finite number (-1)^s * m * 2^e, where the *)
(* significand m is a natural number kept as a little-endian sequence of   *)
(* limbs in base 2^LimbBits.  Every operation computes the exact result    *)
(* and rounds it once, to nearest with ties to even.                       *)
(***************************************************************************)
EXTENDS Integers, Sequences, FiniteSets, TLC

(***************************************************************************)
(* Natural numbers of any size (the model checker's integers are 32 bits). *)
(***************************************************************************)
LimbBits == 14

Base == 2^LimbBits

Max(a, b) == IF a >= b THEN a ELSE b

Min(a, b) == IF a <= b THEN a ELSE b

RECURSIVE BNorm(_)
BNorm(a) ==
    IF a = <<>> THEN <<>>
    ELSE IF a[Len(a)] = 0 THEN BNorm(SubSeq(a, 1, Len(a) - 1))
    ELSE a

RECURSIVE BFromInt(_)
BFromInt(n) == IF n = 0 THEN <<>> ELSE <<n % Base>> \o BFromInt(n \div Base)

RECURSIVE BAddR(_, _, _, _)
BAddR(a, b, i, c) ==
    IF i > Len(a) /\ i > Len(b) THEN (IF c = 0 THEN <<>> ELSE <<c>>)
    ELSE LET s == (IF i <= Len(a) THEN a[i] ELSE 0)
                  + (IF i <= Len(b) THEN b[i] ELSE 0) + c
         IN  <<s % Base>> \o BAddR(a, b, i + 1, s \div Base)

BAdd(a, b) == BNorm(BAddR(a, b, 1, 0))

RECURSIVE BSubR(_, _, _, _)
BSubR(a, b, i, br) ==
    IF i > Len(a) THEN <<>>
    ELSE LET d == a[i] - (IF i <= Len(b) THEN b[i] ELSE 0) - br
         IN  <<(d + Base) % Base>> \o BSubR(a, b, i + 1, IF d < 0 THEN 1 ELSE 0)

\* a - b, for a >= b
BSub(a, b) == BNorm(BSubR(a, b, 1, 0))

RECURSIVE BCmpR(_, _, _)
BCmpR(a, b, i) ==
    IF i = 0 THEN 0
    ELSE IF a[i] < b[i] THEN -1
    ELSE IF a[i] > b[i] THEN 1
    ELSE BCmpR(a, b, i - 1)

\* -1, 0 or 1 as a < b, a = b or a > b
BCmp(a, b) ==
    IF Len(a) < Len(b) THEN -1
    ELSE IF Len(a) > Len(b) THEN 1
    ELSE BCmpR(a, b, Len(a))

RECURSIVE BMulSmallR(_, _, _, _)
BMulSmallR(a, n, i, c) ==
    IF i > Len(a) THEN (IF c = 0 THEN <<>> ELSE <<c>>)
    ELSE LET s == a[i] * n + c
         IN  <<s % Base>> \o BMulSmallR(a, n, i + 1, s \div Base)

\* a * n, for 0 <= n < Base
BMulSmall(a, n) == IF n = 0 THEN <<>> ELSE BMulSmallR(a, n, 1, 0)

RECURSIVE BMulR(_, _, _)
BMulR(a, b, i) ==
    IF i > Len(b) THEN <<>>
    ELSE BAddR(BMulSmall(a, b[i]), <<0>> \o BMulR(a, b, i + 1), 1, 0)

BMul(a, b) == BNorm(BMulR(a, b, 1))

RECURSIVE BDivSmallR(_, _, _, _)
BDivSmallR(a, d, i, rem) ==
    IF i = 0 THEN <<>>
    ELSE LET cur == rem * Base + a[i]
         IN  BDivSmallR(a, d, i - 1, cur % d) \o <<cur \div d>>

\* a \div d, for 0 < d <= Base
BDivSmall(a, d) == BNorm(BDivSmallR(a, d, Len(a), 0))

Zeros(n) == [i \in 1..n |-> 0]

\* a * 2^n
BShl(a, n) ==
    IF a = <<>> THEN <<>>
    ELSE Zeros(n \div LimbBits) \o BMulSmall(a, 2^(n % LimbBits))

\* a \div 2^n
BShr(a, n) ==
    IF Len(a) <= n \div LimbBits THEN <<>>
    ELSE BDivSmall(SubSeq(a, n \div LimbBits + 1, Len(a)), 2^(n % LimbBits))

\* whether a % 2^n = 0
BLowZero(a, n) ==
    /\ \A i \in 1..Min(n \div LimbBits, Len(a)) : a[i] = 0
    /\ n \div LimbBits < Len(a) => a[n \div LimbBits + 1] % 2^(n % LimbBits) = 0

RECURSIVE BitLenSmall(_)
BitLenSmall(x) == IF x = 0 THEN 0 ELSE 1 + BitLenSmall(x \div 2)

BBitLen(a) ==
    IF a = <<>> THEN 0 ELSE LimbBits * (Len(a) - 1) + BitLenSmall(a[Len(a)])

\* bit n of a (bit 0 is the lowest)
BBit(a, n) ==
    IF n \div LimbBits >= Len(a) THEN 0
    ELSE (a[n \div LimbBits + 1] \div 2^(n % LimbBits)) % 2

BIsOdd(a) == a # <<>> /\ a[1] % 2 = 1

RECURSIVE BModSmallR(_, _, _, _)
BModSmallR(a, d, i, rem) ==
    IF i = 0 THEN rem
    ELSE BModSmallR(a, d, i - 1, (rem * Base + a[i]) % d)

\* a % d, for 0 < d <= Base
BModSmall(a, d) == BModSmallR(a, d, Len(a), 0)

RECURSIVE BDivPow10(_, _, _)
\* The quotient q of n by 10^j, one division by ten at a time, and whether
\* a remainder was left (inexact), given whether one was left before.
BDivPow10(n, j, inexact) ==
    IF j = 0 \/ n = <<>> THEN [q |-> n, inexact |-> inexact]
    ELSE BDivPow10(BDivSmall(n, 10), j - 1, inexact \/ BModSmall(n, 10) # 0)

RECURSIVE BFromDigitsR(_, _)
BFromDigitsR(ds, i) ==
    IF i = 0 THEN <<>>
    ELSE BMulSmallR(BFromDigitsR(ds, i - 1), 10, 1, ds[i])

\* the number a sequence of decimal digits writes
BFromDigits(ds) == BNorm(BFromDigitsR(ds, Len(ds)))

(***************************************************************************)
(* Python's float: IEEE 754 binary64.                                      *)
(***************************************************************************)
Precision == 53

MaxExp == 1023

MinExp == -1074

NaN == [k |-> "nan", s |-> 0, m |-> <<>>, e |-> 0]

Inf(s) == [k |-> "inf", s |-> s, m |-> <<>>, e |-> 0]

Zero(s) == [k |-> "fin", s |-> s, m |-> <<>>, e |-> 0]

IsNaN(x) == x.k = "nan"

IsInf(x) == x.k = "inf"

IsFinite(x) == x.k = "fin"

IsZero(x) == x.k = "fin" /\ x.m = <<>>

Xor(s, t) == (s + t) % 2

\* A finite result, or the infinity it overflows to.
Pack(s, m, e) ==
    IF m = <<>> THEN Zero(s)
    ELSE IF e + BBitLen(m) - 1 > MaxExp THEN Inf(s)
    ELSE [k |-> "fin", s |-> s, m |-> m, e |-> e]

\* The float nearest to (-1)^s * (n + f) * 2^e, where 0 <= f < 1 and
\* sticky tells whether f > 0: round to nearest, ties to even.
Round(s, n, e, sticky) ==
    LET len == BBitLen(n)
        d   == Max(len - Precision, MinExp - e)
    IN  IF n = <<>> THEN Zero(s)
        ELSE IF d <= 0
        THEN LET sh == Min(Precision - len, e - MinExp)
             IN  Pack(s, BShl(n, sh), e - sh)
        ELSE LET q    == BShr(n, d)
                 up   == /\ BBit(n, d - 1) = 1
                         /\ (sticky \/ ~BLowZero(n, d - 1) \/ BIsOdd(q))
                 q2   == IF up THEN BAdd(q, <<1>>) ELSE q
             IN  IF BBitLen(q2) > Precision
                 THEN Pack(s, BShr(q2, 1), e + d + 1)
                 ELSE Pack(s, q2, e + d)

\* The float nearest to (-1)^s * (n / d) * 2^e, for n > 0 and 0 < d < Base.
RoundDiv(s, n, d, e) ==
    LET sh == Max(0, Precision + 3 + LimbBits - BBitLen(n))
        m  == BShl(n, sh)
    IN  Round(s, BDivSmall(m, d), e - sh, BModSmall(m, d) # 0)

FNeg(x) == IF IsNaN(x) THEN x ELSE [x EXCEPT !.s = 1 - x.s]

\* x + y
FAdd(x, y) ==
    IF IsNaN(x) \/ IsNaN(y) THEN NaN
    ELSE IF IsInf(x) THEN (IF IsInf(y) /\ x.s # y.s THEN NaN ELSE x)
    ELSE IF IsInf(y) THEN y
    ELSE IF IsZero(x) /\ IsZero(y) THEN Zero(IF x.s = 1 /\ y.s = 1 THEN 1 ELSE 0)
    ELSE IF IsZero(x) THEN y
    ELSE IF IsZero(y) THEN x
    ELSE LET e0 == Min(x.e, y.e)
             a  == BShl(x.m, x.e - e0)
             b  == BShl(y.m, y.e - e0)
             c  == BCmp(a, b)
         IN  IF x.s = y.s THEN Round(x.s, BAdd(a, b), e0, FALSE)
             ELSE IF c = 0 THEN Zero(0)
             ELSE IF c > 0 THEN Round(x.s, BSub(a, b), e0, FALSE)
             ELSE Round(y.s, BSub(b, a), e0, FALSE)

\* x - y
FSub(x, y) == FAdd(x, FNeg(y))

\* x * y
FMul(x, y) ==
    IF IsNaN(x) \/ IsNaN(y) THEN NaN
    ELSE IF (IsInf(x) /\ IsZero(y)) \/ (IsZero(x) /\ IsInf(y)) THEN NaN
    ELSE IF IsInf(x) \/ IsInf(y) THEN Inf(Xor(x.s, y.s))
    ELSE IF IsZero(x) \/ IsZero(y) THEN Zero(Xor(x.s, y.s))
    ELSE Round(Xor(x.s, y.s), BMul(x.m, y.m), x.e + y.e, FALSE)

\* x / d, for d an int with 0 < d < Base, as the int literal 100 the
\* formulas divide by (its conversion to float is exact)
FDiv(x, d) ==
    IF IsNaN(x) \/ IsInf(x) \/ IsZero(x) THEN x
    ELSE RoundDiv(x.s, x.m, d, x.e)

\* x < y: FALSE when either is a NaN; -0.0 and 0.0 are equal
FLt(x, y) ==
    IF IsNaN(x) \/ IsNaN(y) THEN FALSE
    ELSE IF IsZero(x) /\ IsZero(y) THEN FALSE
    ELSE IF x.s # y.s THEN x.s = 1
    ELSE LET lt == \* |x| < |y|
                 IF IsInf(x) THEN FALSE
                 ELSE IF IsInf(y) THEN TRUE
                 ELSE IF IsZero(y) THEN FALSE
                 ELSE IF IsZero(x) THEN TRUE
                 ELSE IF x.e # y.e THEN x.e < y.e
                 ELSE BCmp(x.m, y.m) < 0
             gt == IF IsInf(y) THEN FALSE
                   ELSE IF IsInf(x) THEN TRUE
                   ELSE IF IsZero(x) THEN FALSE
                   ELSE IF IsZero(y) THEN TRUE
                   ELSE IF x.e # y.e THEN x.e > y.e
                   ELSE BCmp(x.m, y.m) > 0
         IN  IF x.s = 0 THEN lt ELSE gt

\* x > y
FGt(x, y) == FLt(y, x)

\* x == y
FEq(x, y) == ~IsNaN(x) /\ ~IsNaN(y) /\ ~FLt(x, y) /\ ~FLt(y, x)

\* x >= y
FGe(x, y) == FGt(x, y) \/ FEq(x, y)

\* float("<digits>") with the decimal point k places from the right and
\* the sign s: the float nearest to (-1)^s * digits / 10^k
FromDecimal(s, ds, k) ==
    LET n  == BFromDigits(ds)
        sh == Max(0, Precision + 3 + 4 * k - BBitLen(n))
        qr == BDivPow10(BShl(n, sh), k, FALSE)
    IN  IF n = <<>> THEN Zero(s) ELSE Round(s, qr.q, 0 - sh, qr.inexact)

\* the float of a small natural number
FromInt(n) == Round(0, BFromInt(n), 0, FALSE)

(***************************************************************************)
(* CarbonCalculator: the conversion factors and the entries of get_input.  *)
(***************************************************************************)
electricity_factor == FromDecimal(0, <<5>>, 4)

gas_factor == FromDecimal(0, <<5, 3>>, 4)

fuel_factor == FromDecimal(0, <<2, 3, 2>>, 2)

waste_factor == FromDecimal(0, <<5, 7>>, 2)

travel_factor == FromDecimal(0, <<2, 3, 1>>, 2)

\* the int literal 12 of the formulas, as the float it becomes, and the
\* int literal 100 they divide by
Twelve == FromInt(12)

Hundred == 100

\* What the operator types at a prompt: a decimal numeral (sign s, digits
\* ds, k of them after the point), "nan", "inf", "-inf", or other text.
Dec(s, ds, k) == [kind |-> "dec", s |-> s, ds |-> ds, k |-> k]

Word(w) == [kind |-> w, s |-> 0, ds |-> <<>>, k |-> 0]

\* float(value): the float, or ok = FALSE for the ValueError
ParseFloat(entry) ==
    CASE entry.kind = "dec"  -> [ok |-> TRUE, val |-> FromDecimal(entry.s, entry.ds, entry.k)]
      [] entry.kind = "nan"  -> [ok |-> TRUE, val |-> NaN]
      [] entry.kind = "inf"  -> [ok |-> TRUE, val |-> Inf(0)]
      [] entry.kind = "-inf" -> [ok |-> TRUE, val |-> Inf(1)]
      [] OTHER               -> [ok |-> FALSE, val |-> NaN]

\* One pass of the loop of get_input on an entry: whether it returns
\* (no ValueError from float(value), and not float(value) < 0).
Returns(entry) ==
    /\ ParseFloat(entry).ok
    /\ ~FLt(ParseFloat(entry).val, Zero(0))

NumFields == 7

\* The entries tried at each of the seven prompts, in the order
\* calculate_footprint asks: electricity_bill, gas_bill, fuel_bill,
\* waste_kg, recycle_percent, km_year, fuel_efficiency.
Numerals ==
    << {Dec(0, <<0>>, 0), Dec(0, <<1, 0, 0>>, 0)},
       {Dec(0, <<0>>, 0), Dec(0, <<5, 0>>, 0)},
       {Dec(0, <<0>>, 0), Dec(0, <<1>>, 0)},
       {Dec(0, <<0>>, 0), Dec(0, <<1, 0>>, 0), Dec(0, <<1, 2, 5>>, 1),
        Dec(0, <<2, 0, 0>>, 0)},
       {Dec(0, <<0>>, 0), Dec(0, <<5, 0>>, 0), Dec(0, <<5, 7>>, 0),
        Dec(0, <<5, 8>>, 0), Dec(0, <<1, 0, 0>>, 0)},
       {Dec(0, <<0>>, 0), Dec(0, <<1, 0, 0, 0, 0>>, 0)},
       {Dec(0, <<0>>, 0), Dec(0, <<8>>, 0)} >>

NonFinite == {Word("nan"), Word("inf")}

Refused == {Dec(1, <<5>>, 0), Word("-inf"), Word("abc")}

\* how many non-finite entries one run tries, and how many entries in a row
\* one prompt refuses
MaxNonFinite == 1

MaxRejected == 1

OrgNames == {"Acme"}

AllEntries == UNION {Numerals[i] : i \in 1..NumFields} \cup NonFinite \cup Refused

Parsed == [entry \in AllEntries |-> ParseFloat(entry)]

Accepted == [entry \in AllEntries |-> Returns(entry)]

(***************************************************************************)
(* calculate_footprint, lines 45-57.                                       *)
(***************************************************************************)
EnergyCO2(electricity_bill, gas_bill, fuel_bill) ==
    FMul(FAdd(FAdd(FMul(electricity_bill, electricity_factor),
                   FMul(gas_bill, gas_factor)),
              FMul(fuel_bill, fuel_factor)),
         Twelve)

\* Variants of the waste formula that a slip would produce: the offset taken
\* from the mass * factor product, the recycled share taken off as a share,
\* the result clamped at zero, the difference taken the other way round.
WasteCO2OffProduct(waste_kg, recycle_percent) ==
    FMul(FSub(FMul(waste_kg, waste_factor), FDiv(recycle_percent, Hundred)),
         Twelve)

WasteCO2Share(waste_kg, recycle_percent) ==
    FMul(FMul(FMul(waste_kg, waste_factor),
              FSub(FromInt(1), FDiv(recycle_percent, Hundred))),
         Twelve)

WasteCO2Clamped(waste_kg, recycle_percent) ==
    LET w == FMul(FMul(waste_kg,
                       FSub(waste_factor, FDiv(recycle_percent, Hundred))),
                  Twelve)
    IN  IF FLt(w, Zero(0)) THEN Zero(0) ELSE w

WasteCO2Flipped(waste_kg, recycle_percent) ==
    FMul(FMul(waste_kg, FSub(FDiv(recycle_percent, Hundred), waste_factor)),
         Twelve)

WasteCO2(waste_kg, recycle_percent) ==
    FMul(FMul(waste_kg, FSub(waste_factor, FDiv(recycle_percent, Hundred))),
         Twelve)

TravelCO2(km_year, fuel_efficiency) ==
    FMul(FMul(FDiv(km_year, Hundred), fuel_efficiency), travel_factor)

\* A variant that leaves a negative waste_co2 out of the sum.
TotalCO2NoCredit(energy_co2, waste_co2, travel_co2) ==
    FAdd(FAdd(energy_co2, IF FLt(waste_co2, Zero(0)) THEN Zero(0) ELSE waste_co2),
         travel_co2)

TotalCO2(energy_co2, waste_co2, travel_co2) ==
    FAdd(FAdd(energy_co2, waste_co2), travel_co2)

Footprint(in) ==
    LET energy_co2 == EnergyCO2(in[1], in[2], in[3])
        waste_co2  == WasteCO2(in[4], in[5])
        travel_co2 == TravelCO2(in[6], in[7])
    IN  [energy_co2 |-> energy_co2,
         waste_co2  |-> waste_co2,
         travel_co2 |-> travel_co2,
         total_co2  |-> TotalCO2(energy_co2, waste_co2, travel_co2)]

(***************************************************************************)
(* generate_advice: the lines of the four lists, by name.                  *)
(***************************************************************************)
EnergyAdvice == <<"energy 1", "energy 2", "energy 3">>

WasteAdvice == <<"waste 1", "waste 2", "waste 3">>

TravelAdvice == <<"travel 1", "travel 2", "travel 3">>

FallbackAdvice == <<"generic 1", "generic 2">>

\* Variants of generate_advice: the comparisons not strict, and an
\* if/elif chain of comparisons not strict.
GenerateAdviceNotStrict(data) ==
    LET a1 == IF FGe(data.energy_co2, data.waste_co2)
                 /\ FGe(data.energy_co2, data.travel_co2)
              THEN EnergyAdvice ELSE <<>>
        a2 == IF FGe(data.waste_co2, data.energy_co2)
                 /\ FGe(data.waste_co2, data.travel_co2)
              THEN a1 \o WasteAdvice ELSE a1
        a3 == IF FGe(data.travel_co2, data.energy_co2)
                 /\ FGe(data.travel_co2, data.waste_co2)
              THEN a2 \o TravelAdvice ELSE a2
    IN  IF a3 = <<>> THEN FallbackAdvice ELSE a3

GenerateAdviceChain(data) ==
    IF FGe(data.energy_co2, data.waste_co2) /\ FGe(data.energy_co2, data.travel_co2)
    THEN EnergyAdvice
    ELSE IF FGe(data.waste_co2, data.energy_co2) /\ FGe(data.waste_co2, data.travel_co2)
    THEN WasteAdvice
    ELSE IF FGe(data.travel_co2, data.energy_co2) /\ FGe(data.travel_co2, data.waste_co2)
    THEN TravelAdvice
    ELSE FallbackAdvice

GenerateAdvice(data) ==
    LET a1 == IF FGt(data.energy_co2, data.waste_co2)
                 /\ FGt(data.energy_co2, data.travel_co2)
              THEN EnergyAdvice ELSE <<>>
        a2 == IF FGt(data.waste_co2, data.energy_co2)
                 /\ FGt(data.waste_co2, data.travel_co2)
              THEN a1 \o WasteAdvice ELSE a1
        a3 == IF FGt(data.travel_co2, data.energy_co2)
                 /\ FGt(data.travel_co2, data.waste_co2)
              THEN a2 \o TravelAdvice ELSE a2
    IN  IF a3 = <<>> THEN FallbackAdvice ELSE a3

(***************************************************************************)
(* The run of main.                                                        *)
(***************************************************************************)
VARIABLES
    pc,         \* where main is
    org,        \* organization_name
    inputs,     \* the values get_input has returned so far, in order
    tries,      \* the entries the current call of get_input has refused
    footprint,  \* footprint_data
    advice,     \* the lines generate_advice returned
    doc,        \* what has been written to the PDFReport, in order
    saved,      \* whether pdf.output has written the file
    calls       \* how often calculate_footprint's arithmetic and
                \* generate_advice have run

vars == <<pc, org, inputs, tries, footprint, advice, doc, saved, calls>>

NoFootprint ==
    [energy_co2 |-> Zero(0), waste_co2 |-> Zero(0),
     travel_co2 |-> Zero(0), total_co2 |-> Zero(0)]

Init ==
    /\ pc = "name"
    /\ org = ""
    /\ inputs = <<>>
    /\ tries = 0
    /\ footprint = NoFootprint
    /\ advice = <<>>
    /\ doc = <<>>
    /\ saved = FALSE
    /\ calls = [calculate |-> 0, generate_advice |-> 0]

\* main, line 163
InputName ==
    /\ pc = "name"
    /\ \E name \in OrgNames : org' = name
    /\ pc' = "input"
    /\ UNCHANGED <<inputs, tries, footprint, advice, doc, saved, calls>>

NonFiniteSoFar == Cardinality({i \in 1..Len(inputs) : ~IsFinite(inputs[i])})

\* The entries the operator may type at the current prompt.
Entries ==
    Numerals[Len(inputs) + 1]
        \cup (IF NonFiniteSoFar < MaxNonFinite THEN NonFinite ELSE {})
        \cup (IF tries < MaxRejected THEN Refused ELSE {})

\* get_input returns on this entry (line 26)
GetInputReturn(entry) ==
    /\ pc = "input"
    /\ Accepted[entry]
    /\ inputs' = Append(inputs, Parsed[entry].val)
    /\ tries' = 0
    /\ pc' = IF Len(inputs) + 1 = NumFields THEN "calculate" ELSE "input"
    /\ UNCHANGED <<org, footprint, advice, doc, saved, calls>>

\* get_input catches the ValueError, prints and prompts again (lines 27-28)
GetInputRetry(entry) ==
    /\ pc = "input"
    /\ ~Accepted[entry]
    /\ tries' = tries + 1
    /\ UNCHANGED <<pc, org, inputs, footprint, advice, doc, saved, calls>>

GetInput ==
    /\ pc = "input"
    /\ \E entry \in Entries : GetInputReturn(entry) \/ GetInputRetry(entry)

\* calculate_footprint, lines 45-57
Calculate ==
    /\ pc = "calculate"
    /\ footprint' = Footprint(inputs)
    /\ calls' = [calls EXCEPT !.calculate = @ + 1]
    /\ pc' = "pdf"
    /\ UNCHANGED <<org, inputs, tries, advice, doc, saved>>

\* The steps of generate_report in the order of its lines: the PDFReport
\* is built (105-106), the problem statement (109-110), the summary
\* section (113-120) and the table (121) are written, generate_advice is
\* called (131), the conclusions are written (132), the file is saved (135).
ReportSteps ==
    <<"pdf", "problem", "summary", "table", "advice", "conclusions", "output">>

\* A variant that writes the conclusions before generate_advice is called.
StepAfterConclusionsFirst(step) ==
    CASE step = "table"       -> "conclusions"
      [] step = "conclusions" -> "advice"
      [] step = "advice"      -> "output"
      [] step = "pdf"         -> "problem"
      [] step = "problem"     -> "summary"
      [] step = "summary"     -> "table"
      [] OTHER                -> "print"

StepAfter(step) ==
    LET i == CHOOSE j \in 1..Len(ReportSteps) : ReportSteps[j] = step
    IN  IF i < Len(ReportSteps) THEN ReportSteps[i + 1] ELSE "print"

Part(section, body) == [section |-> section, body |-> body]

\* generate_report, lines 105-106: PDFReport(title) adds the first page,
\* whose header writes the title
NewReport ==
    /\ pc = "pdf"
    /\ doc' = Append(doc, Part("title", <<>>))
    /\ pc' = StepAfter("pdf")
    /\ UNCHANGED <<org, inputs, tries, footprint, advice, saved, calls>>

\* lines 109-110
WriteProblem ==
    /\ pc = "problem"
    /\ doc' = Append(doc, Part("Problem Statement", <<>>))
    /\ pc' = StepAfter("problem")
    /\ UNCHANGED <<org, inputs, tries, footprint, advice, saved, calls>>

\* lines 113-120
WriteSummary ==
    /\ pc = "summary"
    /\ doc' = Append(doc, Part("Summaries of the Analysis", <<>>))
    /\ pc' = StepAfter("summary")
    /\ UNCHANGED <<org, inputs, tries, footprint, advice, saved, calls>>

\* line 121
WriteTable ==
    /\ pc = "table"
    /\ doc' = Append(doc, Part("table", <<>>))
    /\ pc' = StepAfter("table")
    /\ UNCHANGED <<org, inputs, tries, footprint, advice, saved, calls>>

\* line 131: advice = generate_advice(data)
Advise ==
    /\ pc = "advice"
    /\ advice' = GenerateAdvice(footprint)
    /\ calls' = [calls EXCEPT !.generate_advice = @ + 1]
    /\ pc' = StepAfter("advice")
    /\ UNCHANGED <<org, inputs, tries, footprint, doc, saved>>

\* line 132
WriteConclusions ==
    /\ pc = "conclusions"
    /\ doc' = Append(doc, Part("Conclusions and Suggestions", advice))
    /\ pc' = StepAfter("conclusions")
    /\ UNCHANGED <<org, inputs, tries, footprint, advice, saved, calls>>

\* line 135
Output ==
    /\ pc = "output"
    /\ saved' = TRUE
    /\ pc' = StepAfter("output")
    /\ UNCHANGED <<org, inputs, tries, footprint, advice, doc, calls>>

\* main, line 169
PrintDone ==
    /\ pc = "print"
    /\ pc' = "done"
    /\ UNCHANGED <<org, inputs, tries, footprint, advice, doc, saved, calls>>

Next ==
    \/ InputName
    \/ GetInput
    \/ Calculate
    \/ NewReport
    \/ WriteProblem
    \/ WriteSummary
    \/ WriteTable
    \/ Advise
    \/ WriteConclusions
    \/ Output
    \/ PrintDone

Spec == Init /\ [][Next]_vars

(***************************************************************************)
(* generate_advice on its own, called on any breakdown.                    *)
(***************************************************************************)
MaxMagnitude == 2

Components ==
    {FromInt(n) : n \in 0..MaxMagnitude}
        \cup {FNeg(FromInt(n)) : n \in 1..MaxMagnitude}
        \cup {NaN, Inf(0), Inf(1)}

InitAdvice ==
    /\ pc = "advice"
    /\ org = ""
    /\ inputs = <<>>
    /\ tries = 0
    /\ \E e \in Components, w \in Components, t \in Components :
          footprint = [energy_co2 |-> e, waste_co2 |-> w, travel_co2 |-> t,
                       total_co2 |-> TotalCO2(e, w, t)]
    /\ advice = <<>>
    /\ doc = <<>>
    /\ saved = FALSE
    /\ calls = [calculate |-> 0, generate_advice |-> 0]

SpecAdvice == InitAdvice /\ [][Advise]_vars
(***************************************************************************)
(* The properties.                                                         *)
(***************************************************************************)
\* calculate_footprint has just returned footprint
Returned == pc = "pdf"

\* generate_advice has just returned advice
Advised == pc = "conclusions"

NonNegative(v) == FGe(v, Zero(0))

\* every value get_input returned is a float >= 0
NonNegativeInputs == \A i \in 1..Len(inputs) : NonNegative(inputs[i])

\* every value get_input returned is a non-negative real number
ValidInputs == \A i \in 1..Len(inputs) : IsFinite(inputs[i]) /\ NonNegative(inputs[i])

Dominates(a, b, c) == FGt(a, b) /\ FGt(a, c)

Lists == {EnergyAdvice, WasteAdvice, TravelAdvice, FallbackAdvice}

\* C1: for every breakdown, zero, negative and non-finite components
\* included, generate_advice returns exactly one of the four lists: the
\* energy list iff energy_co2 is strictly greater than both others, the
\* waste list iff waste_co2 is, the travel list iff travel_co2 is, and the
\* two-line fallback iff no category is strictly greater than both others.
C1_ExactlyOneList ==
    Advised =>
        LET e == footprint.energy_co2
            w == footprint.waste_co2
            t == footprint.travel_co2
        IN  /\ advice \in Lists
            /\ advice = EnergyAdvice <=> Dominates(e, w, t)
            /\ advice = WasteAdvice <=> Dominates(w, e, t)
            /\ advice = TravelAdvice <=> Dominates(t, e, w)
            /\ advice = FallbackAdvice <=>
                  ~(Dominates(e, w, t) \/ Dominates(w, e, t) \/ Dominates(t, e, w))
            /\ Len(advice) = (IF advice = FallbackAdvice THEN 2 ELSE 3)

\* the waste list is returned for a negative energy_co2 and a zero travel_co2
C1_Witness ==
    /\ Advised
    /\ advice = WasteAdvice
    /\ FLt(footprint.energy_co2, Zero(0))
    /\ IsZero(footprint.travel_co2)

\* the maximum of the three is attained by two or three categories
TieAtTop(e, w, t) ==
    /\ ~IsNaN(e) /\ ~IsNaN(w) /\ ~IsNaN(t)
    /\ \/ FEq(e, w) /\ FGe(e, t)
       \/ FEq(e, t) /\ FGe(e, w)
       \/ FEq(w, t) /\ FGe(w, e)

\* C2: when two or three categories tie at the top, generate_advice returns
\* the fallback list, never a category list and never two of them.
C2_TieGivesFallback ==
    Advised /\ TieAtTop(footprint.energy_co2, footprint.waste_co2, footprint.travel_co2)
        => advice = FallbackAdvice

\* all three equal and positive
C2_Witness ==
    /\ Advised
    /\ footprint.energy_co2 = FromInt(1)
    /\ footprint.waste_co2 = FromInt(1)
    /\ footprint.travel_co2 = FromInt(1)
    /\ advice = FallbackAdvice

\* The formulas as the claims write them, every operation a float operation
\* in the order written, the factors as the literals 0.0005, 0.0053, 2.32,
\* 0.57 and 2.31.
EnergyFormula(in) ==
    FMul(FAdd(FAdd(FMul(in[1], FromDecimal(0, <<5>>, 4)),
                   FMul(in[2], FromDecimal(0, <<5, 3>>, 4))),
              FMul(in[3], FromDecimal(0, <<2, 3, 2>>, 2))),
         FromInt(12))

WasteFormula(in) ==
    FMul(FMul(in[4], FSub(FromDecimal(0, <<5, 7>>, 2), FDiv(in[5], 100))),
         FromInt(12))

TravelFormula(in) ==
    FMul(FMul(FDiv(in[6], 100), in[7]), FromDecimal(0, <<2, 3, 1>>, 2))

FormulasHold ==
    /\ footprint.energy_co2 = EnergyFormula(inputs)
    /\ footprint.waste_co2 = WasteFormula(inputs)
    /\ footprint.travel_co2 = TravelFormula(inputs)

\* the inputs (100, 50, 0, 200, 50, 10000, 8)
ExampleInputs ==
    <<FromInt(100), FromInt(50), Zero(0), FromInt(200), FromInt(50),
      FromInt(10000), FromInt(8)>>

\* C3 as stated: the formulas hold, and the example inputs give energy 3.78,
\* waste 168.0, travel 1848.0 and total 2019.78.
C3_AsStated ==
    Returned /\ NonNegativeInputs =>
        /\ FormulasHold
        /\ inputs = ExampleInputs =>
              /\ FEq(footprint.energy_co2, FromDecimal(0, <<3, 7, 8>>, 2))
              /\ FEq(footprint.waste_co2, FromDecimal(0, <<1, 6, 8, 0>>, 1))
              /\ FEq(footprint.travel_co2, FromDecimal(0, <<1, 8, 4, 8, 0>>, 1))
              /\ FEq(footprint.total_co2, FromDecimal(0, <<2, 0, 1, 9, 7, 8>>, 2))

\* C3, amended: for every input record of non-negative values the three
\* categories are the formulas evaluated in float arithmetic, each operation
\* rounded, with nothing rounded or clamped afterwards; the example inputs
\* give energy 3.7800000000000002, waste 167.9999999999999, travel 1848.0
\* and total 2019.78.
C3_FloatFormulas ==
    Returned /\ NonNegativeInputs =>
        /\ FormulasHold
        /\ inputs = ExampleInputs =>
              /\ FEq(footprint.energy_co2,
                     FromDecimal(0, <<3, 7, 8, 0, 0, 0, 0, 0, 0, 0, 0, 0, 0, 0, 0, 0, 2>>, 16))
              /\ FEq(footprint.waste_co2,
                     FromDecimal(0, <<1, 6, 7, 9, 9, 9, 9, 9, 9, 9, 9, 9, 9, 9, 9, 9>>, 13))
              /\ FEq(footprint.travel_co2, FromDecimal(0, <<1, 8, 4, 8, 0>>, 1))
              /\ FEq(footprint.total_co2, FromDecimal(0, <<2, 0, 1, 9, 7, 8>>, 2))

\* calculate_footprint has returned for the example inputs
C3_Witness == Returned /\ inputs = ExampleInputs

\* C4: for every valid input record the returned total_co2 is exactly
\* energy_co2 + waste_co2 + travel_co2 of the same breakdown, also when
\* waste_co2 is negative.
C4_TotalIsSum ==
    Returned /\ ValidInputs =>
        LET sum == FAdd(FAdd(footprint.energy_co2, footprint.waste_co2),
                        footprint.travel_co2)
        IN  footprint.total_co2 = sum /\ FEq(footprint.total_co2, sum)

\* a valid record whose waste_co2 is negative and whose other parts are not zero
C4_Witness ==
    /\ Returned
    /\ ValidInputs
    /\ FLt(footprint.waste_co2, Zero(0))
    /\ FGt(footprint.energy_co2, Zero(0))
    /\ FGt(footprint.travel_co2, Zero(0))

\* C5: when recyclePercent is 57, waste_co2 is 0 for every real wasteKg >= 0,
\* whatever the other fields are.
C5_ZeroAt57 ==
    Returned /\ ValidInputs /\ FEq(inputs[5], FromInt(57))
        => FEq(footprint.waste_co2, Zero(0))

\* recyclePercent 57 with 200 kg of waste
C5_Witness ==
    /\ Returned
    /\ ValidInputs
    /\ FEq(inputs[5], FromInt(57))
    /\ FEq(inputs[4], FromInt(200))

\* C6 as stated: every value get_input has returned is >= 0, so each field
\* the formulas use is >= 0.
C6_FieldsNonNegative == \A i \in 1..Len(inputs) : NonNegative(inputs[i])

\* C7 as stated: no value get_input returns, and so none the formulas use,
\* is a NaN or an infinity.
C7_FieldsFinite ==
    /\ \A i \in 1..Len(inputs) : IsFinite(inputs[i])
    /\ Returned =>
          /\ IsFinite(footprint.energy_co2)
          /\ IsFinite(footprint.waste_co2)
          /\ IsFinite(footprint.travel_co2)
          /\ IsFinite(footprint.total_co2)

\* rendering: the document exists and parts of it are written
RenderingStarted == doc # <<>>

ConclusionsWritten ==
    \E i \in 1..Len(doc) : doc[i].section = "Conclusions and Suggestions"

\* What C8 and its amendment share: each of the two is invoked at most once,
\* exactly once in a run that ends, and the computation completes before
\* advice selection starts.
OnceAndComputeFirst ==
    /\ calls.calculate <= 1
    /\ calls.generate_advice <= 1
    /\ pc = "done" => calls.calculate = 1 /\ calls.generate_advice = 1
    /\ pc = "advice" \/ calls.generate_advice > 0 => calls.calculate = 1

FiftySeven == FromInt(57)

\* C9: for non-negative inputs waste_co2 is negative exactly when wasteKg > 0
\* and recyclePercent > 57; then it is returned as computed, not clamped, it
\* is part of total_co2, and generate_advice returns one of its lists.
C9_NegativeWaste ==
    /\ Returned /\ NonNegativeInputs =>
          /\ FLt(footprint.waste_co2, Zero(0))
                <=> FGt(inputs[4], Zero(0)) /\ FGt(inputs[5], FiftySeven)
          /\ FLt(footprint.waste_co2, Zero(0)) =>
                /\ footprint.waste_co2 = WasteFormula(inputs)
                /\ footprint.total_co2 =
                      FAdd(FAdd(footprint.energy_co2, footprint.waste_co2),
                           footprint.travel_co2)
    /\ Advised /\ NonNegativeInputs /\ FLt(footprint.waste_co2, Zero(0)) =>
          advice \in Lists

\* generate_advice has returned for a breakdown whose waste_co2 is negative
\* and makes total_co2 smaller than energy_co2 + travel_co2
C9_Witness ==
    /\ Advised
    /\ ValidInputs
    /\ FLt(footprint.waste_co2, Zero(0))
    /\ FLt(footprint.total_co2, FAdd(footprint.energy_co2, footprint.travel_co2))
    /\ advice \in Lists

\* C10: in a run whose inputs are all non-negative and whose recyclePercent
\* is >= 57 or whose wasteKg is 0, the waste list is never selected: the
\* advice is the energy list, the travel list or the fallback; for real
\* inputs, waste_co2 <= 0 <= energy_co2.
C10_NoWasteAdvice ==
    Advised /\ NonNegativeInputs
            /\ (FGe(inputs[5], FiftySeven) \/ FEq(inputs[4], Zero(0))) =>
        /\ advice \in {EnergyAdvice, TravelAdvice, FallbackAdvice}
        /\ ValidInputs =>
              /\ FGe(Zero(0), footprint.waste_co2)
              /\ FGe(footprint.energy_co2, Zero(0))

\* waste is produced, more than 57 percent of it is recycled, and
\* generate_advice has returned
C10_Witness ==
    /\ Advised
    /\ ValidInputs
    /\ FGt(inputs[4], Zero(0))
    /\ FGt(inputs[5], FiftySeven)
    /\ advice = TravelAdvice
=============================================================================
